---- MODULE Spec2Model ----
(***************************************************************************)
(* Flagsmith identity API: the SDK key authentication, the SDK identity    *)
(* resolution endpoints and the dashboard IdentityViewSet over the two     *)
(* identity stores (relational rows, DynamoDB documents).                  *)
(*                                                                         *)
(* Strings the code inspects character by character (api keys,            *)
(* identifiers, search terms) are sequences of one-character strings.      *)
(***************************************************************************)
EXTENDS Naturals, Sequences, FiniteSets

----------------------------------------------------------------------------
(* Bounds *)

\* Number of SDK requests that can be in flight at once.
MaxRequests == 2

\* Largest number of relational rows one (environment, identifier) may hold
\* before inserts stop being enumerated (only reached when uniqueness fails).
MaxCopies == 2

----------------------------------------------------------------------------
(* Configuration: environments, projects, features, segments *)

\* api key of an environment of a project with enable_dynamo_db = False
EnvR == <<"r">>
\* api key of an environment of a project with enable_dynamo_db = True
EnvD == <<"d">>
Envs == {EnvR, EnvD}
\* api keys of a second environment of each kind. The api key is the string
\* the creator of the environment posts; this one continues EnvD's key after
\* an underscore.
EnvR2 == <<"s">>
EnvD2 == <<"d", "_", "a">>
KeyEnvs == {EnvR, EnvR2, EnvD, EnvD2}

\* request.environment not set / Environment.get_from_cache returned None
NoEnv == <<>>

\* environment.project.enable_dynamo_db
EnableDynamoDb(env) == env \in {EnvD, EnvD2}

\* X-Environment-Key header values: absent, a key of no environment, real keys
HeaderKeys == {<<>>, <<"x">>, EnvR, EnvD}

\* The project's features, in definition order.
Features == <<"f1", "f2">>
FeatureSet == {Features[i] : i \in 1..Len(Features)}

\* The project's segments in priority order; a segment matches an identity
\* that has every trait key of its rule (ALL over leaf conditions).
Segments == << [id |-> 1, rule |-> {"t1"}], [id |-> 2, rule |-> {}] >>
SegmentIds == {Segments[i].id : i \in 1..Len(Segments)}
TraitKeys == {"t1"}

Slots == 1..MaxRequests

\* Integration sinks (webhook configurations) an environment may have
MaxSinks == 2
Sinks == 1..MaxSinks

\* The per-sink timeout of a send, in ticks of waiting ("a few seconds")
SinkTimeout == 2

\* No identity: None
NoIdentity == [env |-> NoEnv, identifier |-> <<>>, copy |-> 0]
\* No payload
NoData == [identity |-> <<>>, traits |-> {}, flags |-> <<>>, segments |-> <<>>]

\* A request's event for one sink: where its dispatch stands, the identity and
\* feature states it was called with, the payload once generated, how long the
\* POST has waited for the sink, and whether the failure was logged.
Task(pc, identity, states, data, waited, logged) ==
    [pc |-> pc, identity |-> identity, states |-> states, data |-> data,
     waited |-> waited, logged |-> logged]

NoTask == Task("none", NoIdentity, <<>>, NoData, 0, FALSE)
NoTasks == [k \in Slots \X Sinks |-> NoTask]

VARIABLES
    stopFlags,   \* [Envs -> BOOLEAN]: organisation.stop_serving_flags in the database
    envCache,    \* [Envs -> {"absent","serving","stopped"}]: environment_cache snapshot
    segOverrides,\* [SegmentIds -> SUBSET FeatureSet]: segment-scope feature states
    rows,        \* relational Identity rows
    docs,        \* DynamoDB identity documents
    putConditional, \* whether Identity.put_item_dynamodb conditions on absence
    reqs,        \* [Slots -> request]: SDK requests in flight
    webhooks,    \* the sinks with a webhook configuration on the environment
    outbox,      \* [Slots \X Sinks -> task]: the dispatch of each request to each sink
    last         \* result of the last dashboard (IdentityViewSet) operation

vars == <<stopFlags, envCache, segOverrides, rows, docs, putConditional, reqs,
         webhooks, outbox, last>>

----------------------------------------------------------------------------
(* Feature states and their resolution *)

FS(f, scope, seg) == [feature |-> f, scope |-> scope, seg |-> seg]

\* Segment.does_identity_match
DoesIdentityMatch(segment, traits) == segment.rule \subseteq traits

RECURSIVE FirstSegmentOverride(_, _, _)
\* Scan the segments from position i in priority order; the first matched
\* segment that overrides f wins; 0 when none does.
FirstSegmentOverride(f, traits, i) ==
    IF i > Len(Segments) THEN 0
    ELSE IF DoesIdentityMatch(Segments[i], traits) /\ f \in segOverrides[Segments[i].id]
         THEN Segments[i].id
         ELSE FirstSegmentOverride(f, traits, i + 1)

\* Environment-scope feature states, one per feature in definition order.
EnvironmentFeatureStates == [i \in 1..Len(Features) |-> FS(Features[i], "environment", 0)]

\* Identity.get_all_feature_states for an identity with these traits and
\* identity-scope overrides.
GetAllFeatureStates(traits, overrides) ==
    [i \in 1..Len(Features) |->
        LET f == Features[i]
            s == FirstSegmentOverride(f, traits, 1)
        IN  IF f \in overrides THEN FS(f, "identity", 0)
            ELSE IF s # 0 THEN FS(f, "segment", s)
            ELSE FS(f, "environment", 0)]

----------------------------------------------------------------------------
(* Relational store *)

Row(env, identifier, copy, traits, overrides) ==
    [env |-> env, identifier |-> identifier, copy |-> copy,
     traits |-> traits, overrides |-> overrides]

RowsOf(env, identifier) == {w \in rows : w.env = env /\ w.identifier = identifier}

\* unique_together (environment, identifier) on the Identity table
UniqueViolation(env, identifier) == RowsOf(env, identifier) # {}

\* QuerySet.get over the rows a filter selected
ObjectsGet(found) ==
    IF found = {} THEN [outcome |-> "DoesNotExist", copy |-> 0]
    ELSE IF Cardinality(found) > 1 THEN [outcome |-> "MultipleObjectsReturned", copy |-> 0]
    ELSE [outcome |-> "found", copy |-> (CHOOSE w \in found : TRUE).copy]

\* The row a request's identity object refers to (empty traits and overrides
\* when the row is gone).
IdentityRow(env, identifier, copy) ==
    LET found == {w \in RowsOf(env, identifier) : w.copy = copy}
    IN  IF found = {} THEN Row(env, identifier, copy, {}, {})
        ELSE CHOOSE w \in found : TRUE

----------------------------------------------------------------------------
(* SDK requests *)

IdleReq ==
    [pc |-> "idle", key |-> <<>>, environment |-> NoEnv, identifier |-> <<>>,
     endpoint |-> "", copy |-> 0, via |-> "", feature |-> "", states |-> <<>>,
     called |-> FALSE, sent |-> <<>>,
     status |-> 0, body |-> "", flags |-> <<>>, traits |-> {}]

\* The request ends with this response.
Respond(q, status, body, flags, traits) ==
    [q EXCEPT !.pc = "done", !.status = status, !.body = body,
              !.flags = flags, !.traits = traits]

\* Environment.get_from_cache(api_key): "absent" for None, else the cached
\* snapshot of the organisation's flag, loaded from the database on a miss.
GetFromCache(api_key) ==
    IF api_key \notin Envs THEN "absent"
    ELSE IF envCache[api_key] # "absent" THEN envCache[api_key]
    ELSE IF stopFlags[api_key] THEN "stopped" ELSE "serving"

\* The two checks of authenticate on the environment it was given.
AuthOutcomeNoStopCheck(environment) ==
    IF environment = "absent" THEN "auth_invalid" ELSE "ok"

AuthOutcome(environment) ==
    IF environment = "absent" THEN "auth_invalid"
    ELSE IF environment = "stopped" THEN "auth_disabled"
    ELSE "ok"

\* EnvironmentKeyAuthentication.authenticate
Authenticate(r, api_key) ==
    /\ reqs[r].pc = "idle"
    /\ LET environment == GetFromCache(api_key)
           outcome == AuthOutcome(environment)
           q == [reqs[r] EXCEPT !.key = api_key]
       IN  /\ envCache' = IF api_key \in Envs
                          THEN [envCache EXCEPT ![api_key] = environment]
                          ELSE envCache
           /\ reqs' = [reqs EXCEPT ![r] =
                 IF outcome = "ok"
                 THEN [q EXCEPT !.environment = api_key, !.pc = "get"]
                 ELSE Respond(q, 401, outcome, <<>>, {})]
    /\ UNCHANGED <<webhooks, outbox, stopFlags, segOverrides, rows, docs, putConditional, last>>

\* An administrator sets or clears organisation.stop_serving_flags.
ToggleStop(env) ==
    /\ stopFlags' = [stopFlags EXCEPT ![env] = ~stopFlags[env]]
    /\ UNCHANGED <<webhooks, outbox, envCache, segOverrides, rows, docs, putConditional, reqs, last>>

\* The cached environment reaches its timeout.
ExpireCache(env) ==
    /\ envCache[env] # "absent"
    /\ envCache' = [envCache EXCEPT ![env] = "absent"]
    /\ UNCHANGED <<webhooks, outbox, stopFlags, segOverrides, rows, docs, putConditional, reqs, last>>

\* The lookup of get_or_create(identifier=identifier) with the environment
\* left out of the filter.
SdkLookupAnyEnvironment(env, identifier) == {w \in rows : w.identifier = identifier}

\* The rows get_or_create(identifier=identifier, environment=request.environment)
\* looks up.
SdkLookup(env, identifier) == RowsOf(env, identifier)

\* The first lookup of get_or_create for request q.
GetOrCreateFirst(q) ==
    LET got == ObjectsGet(SdkLookup(q.environment, q.identifier))
    IN  IF got.outcome = "found"
        THEN [q EXCEPT !.copy = got.copy, !.via = "get", !.pc = "feature"]
        ELSE IF got.outcome = "DoesNotExist" THEN [q EXCEPT !.pc = "create"]
        ELSE Respond(q, 500, "multiple_objects", <<>>, {})

\* SDKIdentities.get up to the first lookup of get_or_create.
GetOrCreateGet(r, identifier) ==
    /\ reqs[r].pc = "get"
    /\ LET q == [reqs[r] EXCEPT !.identifier = identifier, !.endpoint = "identities"]
       IN  reqs' = [reqs EXCEPT ![r] =
             IF identifier = <<>> THEN Respond(q, 200, "missing_identifier", <<>>, {})
             ELSE GetOrCreateFirst(q)]
    /\ UNCHANGED <<webhooks, outbox, stopFlags, envCache, segOverrides, rows, docs, putConditional, last>>

\* SDKIdentitiesDeprecated.get up to the first lookup of get_or_create.
DeprecatedGet(r, identifier) ==
    /\ reqs[r].pc = "get"
    /\ LET q == [reqs[r] EXCEPT !.identifier = identifier, !.endpoint = "deprecated"]
       IN  reqs' = [reqs EXCEPT ![r] =
             IF identifier = <<>> THEN Respond(q, 400, "missing_identifier", <<>>, {})
             ELSE GetOrCreateFirst(q)]
    /\ UNCHANGED <<webhooks, outbox, stopFlags, envCache, segOverrides, rows, docs, putConditional, last>>

\* get_or_create after DoesNotExist: the INSERT inside transaction.atomic.
GetOrCreateCreate(r) ==
    /\ reqs[r].pc = "create"
    /\ LET q == reqs[r]
           copy == Cardinality(RowsOf(q.environment, q.identifier)) + 1
       IN  IF UniqueViolation(q.environment, q.identifier)
           THEN /\ reqs' = [reqs EXCEPT ![r] = [q EXCEPT !.pc = "reget"]]
                /\ rows' = rows
           ELSE /\ copy <= MaxCopies
                /\ rows' = rows \cup {Row(q.environment, q.identifier, copy, {}, {})}
                /\ reqs' = [reqs EXCEPT ![r] =
                      [q EXCEPT !.copy = copy, !.via = "create", !.pc = "feature"]]
    /\ UNCHANGED <<webhooks, outbox, stopFlags, envCache, segOverrides, docs, putConditional, last>>

\* A hand-written get-then-create: the IntegrityError of the INSERT is not
\* caught and the request fails.
GetOrCreateRegetRaises(r) ==
    /\ reqs[r].pc = "reget"
    /\ reqs' = [reqs EXCEPT ![r] = Respond(reqs[r], 500, "integrity_error", <<>>, {})]
    /\ UNCHANGED <<webhooks, outbox, stopFlags, envCache, segOverrides, rows, docs, putConditional, last>>

\* get_or_create after IntegrityError: the second lookup, or the re-raise.
GetOrCreateReget(r) ==
    /\ reqs[r].pc = "reget"
    /\ LET q == reqs[r]
           got == ObjectsGet(SdkLookup(q.environment, q.identifier))
       IN  reqs' = [reqs EXCEPT ![r] =
             IF got.outcome = "found"
             THEN [q EXCEPT !.copy = got.copy, !.via = "reget", !.pc = "feature"]
             ELSE Respond(q, 500, "integrity_error", <<>>, {})]
    /\ UNCHANGED <<webhooks, outbox, stopFlags, envCache, segOverrides, rows, docs, putConditional, last>>

\* The environment's feature states served for every identity.
AllFeatureStatesOfEnvironment(q) == EnvironmentFeatureStates

\* identity.get_all_feature_states() of the request's identity
AllFeatureStatesOf(q) ==
    LET w == IdentityRow(q.environment, q.identifier, q.copy)
    IN  GetAllFeatureStates(w.traits, w.overrides)

\* The loop without its comparison of names: the first feature state.
FirstNamedAny(states, feature_name) == IF Len(states) = 0 THEN 0 ELSE 1

\* The position of the first feature state named feature_name, 0 when none.
FirstNamed(states, feature_name) ==
    LET hits == {i \in 1..Len(states) : states[i].feature = feature_name}
    IN  IF hits = {} THEN 0 ELSE CHOOSE i \in hits : \A j \in hits : i <= j

\* The single-feature response with the integrations called first.
SingleFeatureStateResponseDispatching(q, feature_name) ==
    LET states == AllFeatureStatesOf(q)
        i == FirstNamed(states, feature_name)
        d == [q EXCEPT !.called = TRUE, !.sent = states]
    IN  IF i # 0 THEN Respond(d, 200, "flag", <<states[i]>>, {})
        ELSE Respond(d, 404, "feature_not_found", <<>>, {})

\* SDKIdentities._get_single_feature_state_response
SingleFeatureStateResponse(q, feature_name) ==
    LET states == AllFeatureStatesOf(q)
        i == FirstNamed(states, feature_name)
    IN  IF i # 0 THEN Respond(q, 200, "flag", <<states[i]>>, {})
        ELSE Respond(q, 404, "feature_not_found", <<>>, {})

\* SDKIdentities.get from the feature parameter on; with no feature name, the
\* start of _get_all_feature_states_for_user_response (the resolution).
ReadFeature(r, feature_name) ==
    /\ reqs[r].pc = "feature"
    /\ reqs[r].endpoint = "identities"
    /\ LET q == [reqs[r] EXCEPT !.feature = feature_name]
       IN  reqs' = [reqs EXCEPT ![r] =
             IF feature_name # "" THEN SingleFeatureStateResponse(q, feature_name)
             ELSE [q EXCEPT !.states = AllFeatureStatesOf(q), !.pc = "dispatch"]]
    /\ UNCHANGED <<webhooks, outbox, stopFlags, envCache, segOverrides, rows, docs, putConditional, last>>

\* features.serializers.FeatureStateSerializerFull: the fields of the feature
\* state
FeatureStateSerializerFull(fs) ==
    [feature |-> fs.feature, scope |-> fs.scope, seg |-> fs.seg]

\* IntegrationFeatureStateSerializer.get_environment_weight: the percentage
\* allocation of the multivariate option holding the value, None when there is
\* none (the features of this model have no multivariate options).
GetEnvironmentWeight(fs) == "None"

\* IntegrationFeatureStateSerializer: FeatureStateSerializerFull and the
\* environment_weight field
IntegrationFeatureStateSerializer(fs) ==
    [feature |-> fs.feature, scope |-> fs.scope, seg |-> fs.seg,
     environment_weight |-> GetEnvironmentWeight(fs)]

\* A serializer's context: the identity it was given, NoIdentity without one.
Context(identity) == [identity |-> identity]
NoContext == Context(NoIdentity)

\* The traits does_identity_match reads from the identity it is given; an
\* identity of None has none to read.
TraitsOfIdentity(identity) ==
    IF identity = NoIdentity THEN {}
    ELSE IdentityRow(identity.env, identity.identifier, identity.copy).traits

\* SegmentSerializer.get_member
GetMember(obj, context) == DoesIdentityMatch(obj, TraitsOfIdentity(context.identity))

\* SegmentSerializer: member and id (the segments of this model carry no name)
SegmentSerializer(obj, context) == [id |-> obj.id, member |-> GetMember(obj, context)]

\* WebhookWrapper.generate_user_data up to its data dict
GenerateUserData(identity, feature_states) ==
    [identity |-> identity.identifier,
     traits |-> IdentityRow(identity.env, identity.identifier, identity.copy).traits,
     flags |-> [i \in 1..Len(feature_states) |-> FeatureStateSerializerFull(feature_states[i])],
     segments |-> [i \in 1..Len(Segments) |-> SegmentSerializer(Segments[i], NoContext)]]

\* How generate_user_data can end: it returns data; it raises (BdbQuit from
\* breakpoint() without a console, or does_identity_match dereferencing the
\* identity None); or breakpoint() waits on the console for ever.
GenerateOutcomes == {"returns", "raises", "blocks"}

\* How requests.post without timeout can go: the request is sent and the
\* response awaited, or it raises (connection refused, invalid URL).
PostOutcomes == {"sent", "raises"}

\* identify_integrations(identity, all_feature_states): one event per
\* configured sink is scheduled off the request path.
IdentifyIntegrations(r) ==
    /\ reqs[r].pc = "dispatch"
    /\ reqs' = [reqs EXCEPT ![r] =
          [reqs[r] EXCEPT !.called = TRUE, !.sent = reqs[r].states, !.pc = "respond"]]
    /\ LET q == reqs[r]
           identity == [env |-> q.environment, identifier |-> q.identifier, copy |-> q.copy]
       IN  outbox' = [k \in Slots \X Sinks |->
                        IF k[1] = r /\ k[2] \in webhooks
                        THEN Task("queued", identity, q.states, NoData, 0, FALSE)
                        ELSE outbox[k]]
    /\ UNCHANGED <<webhooks, stopFlags, envCache, segOverrides, rows, docs, putConditional, last>>

\* The background worker builds the sink's payload with generate_user_data; a
\* failure is logged and ends this sink's event only.
WorkerGenerate(r, s, outcome) ==
    /\ outbox[<<r, s>>].pc = "queued"
    /\ LET t == outbox[<<r, s>>]
       IN  outbox' = [outbox EXCEPT ![<<r, s>>] =
             IF outcome = "returns"
             THEN [t EXCEPT !.pc = "ready", !.data = GenerateUserData(t.identity, t.states)]
             ELSE IF outcome = "raises"
             THEN [t EXCEPT !.pc = "failed", !.logged = TRUE]
             ELSE [t EXCEPT !.pc = "blocked"]]
    /\ UNCHANGED <<webhooks, stopFlags, envCache, segOverrides, rows, docs, putConditional, reqs, last>>

\* WebhookWrapper._identify_user: requests.post(self.url, json=user_data); an
\* exception it raises is logged by the worker and ends this sink's event only.
IdentifyUser(r, s, outcome) ==
    /\ outbox[<<r, s>>].pc = "ready"
    /\ LET t == outbox[<<r, s>>]
       IN  outbox' = [outbox EXCEPT ![<<r, s>>] =
             IF outcome = "sent" THEN [t EXCEPT !.pc = "posting"]
             ELSE [t EXCEPT !.pc = "failed", !.logged = TRUE]]
    /\ UNCHANGED <<webhooks, stopFlags, envCache, segOverrides, rows, docs, putConditional, reqs, last>>

\* The sink answers: requests.post returns and the status code is logged.
SinkAnswers(r, s) ==
    /\ outbox[<<r, s>>].pc = "posting"
    /\ outbox' = [outbox EXCEPT ![<<r, s>>].pc = "delivered"]
    /\ UNCHANGED <<webhooks, stopFlags, envCache, segOverrides, rows, docs, putConditional, reqs, last>>

\* The sink does not answer: requests.post, called without timeout, keeps
\* waiting (time is followed up to one tick past SinkTimeout).
SinkSilent(r, s) ==
    /\ outbox[<<r, s>>].pc = "posting"
    /\ outbox[<<r, s>>].waited <= SinkTimeout
    /\ outbox' = [outbox EXCEPT ![<<r, s>>].waited = @ + 1]
    /\ UNCHANGED <<webhooks, stopFlags, envCache, segOverrides, rows, docs, putConditional, reqs, last>>

\* The response turned into an error by a failed sink.
AllFeatureStatesResponseFailing(r) ==
    /\ reqs[r].pc = "respond"
    /\ LET q == reqs[r]
           w == IdentityRow(q.environment, q.identifier, q.copy)
       IN  reqs' = [reqs EXCEPT ![r] =
             IF \E s \in Sinks : outbox[<<r, s>>].pc = "failed"
             THEN Respond(q, 500, "integration_error", <<>>, {})
             ELSE Respond(q, 200, "flags_traits", q.states, w.traits)]
    /\ UNCHANGED <<webhooks, outbox, stopFlags, envCache, segOverrides, rows, docs, putConditional, last>>

\* The response of _get_all_feature_states_for_user_response.
AllFeatureStatesResponse(r) ==
    /\ reqs[r].pc = "respond"
    /\ LET q == reqs[r]
           w == IdentityRow(q.environment, q.identifier, q.copy)
       IN  reqs' = [reqs EXCEPT ![r] = Respond(q, 200, "flags_traits", q.states, w.traits)]
    /\ UNCHANGED <<webhooks, outbox, stopFlags, envCache, segOverrides, rows, docs, putConditional, last>>

\* SDKIdentitiesDeprecated.get after get_or_create: the identity's flags,
\* traits and segments.
DeprecatedResponse(r) ==
    /\ reqs[r].pc = "feature"
    /\ reqs[r].endpoint = "deprecated"
    /\ LET q == reqs[r]
           w == IdentityRow(q.environment, q.identifier, q.copy)
       IN  reqs' = [reqs EXCEPT ![r] =
             Respond(q, 200, "flags_traits_segments", AllFeatureStatesOf(q), w.traits)]
    /\ UNCHANGED <<webhooks, outbox, stopFlags, envCache, segOverrides, rows, docs, putConditional, last>>

\* The response has been sent; the worker takes the next request.
NextRequest(r) ==
    /\ reqs[r].pc = "done"
    /\ reqs' = [reqs EXCEPT ![r] = IdleReq]
    /\ UNCHANGED <<webhooks, outbox, stopFlags, envCache, segOverrides, rows, docs, putConditional, last>>

----------------------------------------------------------------------------
(* Specification of the SDK endpoints: concurrent resolution requests *)

NoLast == [op |-> "none"]

\* identifier query parameter: absent, or an identifier
IdentifierParams == {<<>>, <<"a">>}
\* feature query parameter: absent, a feature of the project, an unknown name
FeatureParams == {"", "f2", "fx"}

Init ==
    /\ stopFlags = [e \in Envs |-> FALSE]
    /\ envCache = [e \in Envs |-> "serving"]
    /\ segOverrides = [s \in SegmentIds |-> IF s = 1 THEN {"f1"} ELSE {"f1", "f2"}]
    /\ rows = {}
    /\ docs = {}
    /\ putConditional = TRUE
    /\ reqs = [r \in Slots |-> IdleReq]
    /\ webhooks = {}
    /\ outbox = NoTasks
    /\ last = NoLast

Next ==
    \/ \E r \in Slots, k \in HeaderKeys : Authenticate(r, k)
    \/ \E r \in Slots, i \in IdentifierParams : GetOrCreateGet(r, i)
    \/ \E r \in Slots, i \in IdentifierParams : DeprecatedGet(r, i)
    \/ \E r \in Slots : DeprecatedResponse(r)
    \/ \E r \in Slots : GetOrCreateCreate(r)
    \/ \E r \in Slots : GetOrCreateReget(r)
    \/ \E r \in Slots, f \in FeatureParams : ReadFeature(r, f)
    \/ \E r \in Slots : IdentifyIntegrations(r)
    \/ \E r \in Slots : AllFeatureStatesResponse(r)
    \/ \E r \in Slots : NextRequest(r)

Spec == Init /\ [][Next]_vars

----------------------------------------------------------------------------
(* Specification of the authentication: the organisation's flag changes and *)
(* the environment cache expires while requests arrive                      *)

AuthKeys == {<<>>, <<"x">>, EnvR}

InitAuth ==
    /\ stopFlags = [e \in Envs |-> FALSE]
    /\ envCache = [e \in Envs |-> "absent"]
    /\ segOverrides = [s \in SegmentIds |-> IF s = 1 THEN {"f1"} ELSE {"f1", "f2"}]
    /\ rows = {}
    /\ docs = {}
    /\ putConditional = TRUE
    /\ reqs = [r \in Slots |-> IdleReq]
    /\ webhooks = {}
    /\ outbox = NoTasks
    /\ last = NoLast

NextAuth ==
    \/ \E r \in Slots, k \in AuthKeys : Authenticate(r, k)
    \/ ToggleStop(EnvR)
    \/ ExpireCache(EnvR)
    \/ \E r \in Slots : GetOrCreateGet(r, <<"a">>)
    \/ \E r \in Slots : DeprecatedGet(r, <<"a">>)
    \/ \E r \in Slots : DeprecatedResponse(r)
    \/ \E r \in Slots : GetOrCreateCreate(r)
    \/ \E r \in Slots : GetOrCreateReget(r)
    \/ \E r \in Slots : ReadFeature(r, "")
    \/ \E r \in Slots : IdentifyIntegrations(r)
    \/ \E r \in Slots : AllFeatureStatesResponse(r)
    \/ \E r \in Slots : NextRequest(r)

SpecAuth == InitAuth /\ [][NextAuth]_vars

----------------------------------------------------------------------------
(* Specification of the resolution: every segment configuration, and an     *)
(* identity that may exist already with traits and overrides of its own     *)

InitResolve ==
    /\ stopFlags = [e \in Envs |-> FALSE]
    /\ envCache = [e \in Envs |-> "serving"]
    /\ segOverrides \in [SegmentIds -> SUBSET FeatureSet]
    /\ \/ rows = {}
       \/ \E t \in SUBSET TraitKeys, o \in SUBSET FeatureSet :
             rows = {Row(EnvR, <<"a">>, 1, t, o)}
    /\ docs = {}
    /\ putConditional = TRUE
    /\ reqs = [r \in Slots |-> IdleReq]
    /\ webhooks = {}
    /\ outbox = NoTasks
    /\ last = NoLast

NextResolve ==
    \/ \E r \in Slots : Authenticate(r, EnvR)
    \/ \E r \in Slots : GetOrCreateGet(r, <<"a">>)
    \/ \E r \in Slots : DeprecatedGet(r, <<"a">>)
    \/ \E r \in Slots : DeprecatedResponse(r)
    \/ \E r \in Slots : GetOrCreateCreate(r)
    \/ \E r \in Slots : GetOrCreateReget(r)
    \/ \E r \in Slots, f \in {"", "f1"} : ReadFeature(r, f)
    \/ \E r \in Slots : IdentifyIntegrations(r)
    \/ \E r \in Slots : AllFeatureStatesResponse(r)
    \/ \E r \in Slots : NextRequest(r)

SpecResolve == InitResolve /\ [][NextResolve]_vars

----------------------------------------------------------------------------
(* Specification of the integration dispatch: one SDK request on an          *)
(* environment with a webhook configuration per sink, and the background     *)
(* workers sending its event to the sinks                                    *)

InitDispatch ==
    /\ stopFlags = [e \in Envs |-> FALSE]
    /\ envCache = [e \in Envs |-> "serving"]
    /\ segOverrides = [s \in SegmentIds |-> IF s = 1 THEN {"f1"} ELSE {"f1", "f2"}]
    /\ rows \in {{}} \cup {{Row(EnvR, <<"a">>, 1, t, {})} : t \in SUBSET TraitKeys}
    /\ docs = {}
    /\ putConditional = TRUE
    /\ reqs = [r \in Slots |-> IdleReq]
    /\ webhooks = Sinks
    /\ outbox = NoTasks
    /\ last = NoLast

NextDispatch ==
    \/ Authenticate(1, EnvR)
    \/ GetOrCreateGet(1, <<"a">>)
    \/ GetOrCreateCreate(1)
    \/ \E f \in {"", "f2"} : ReadFeature(1, f)
    \/ IdentifyIntegrations(1)
    \/ AllFeatureStatesResponse(1)
    \/ \E s \in Sinks, o \in GenerateOutcomes : WorkerGenerate(1, s, o)
    \/ \E s \in Sinks, o \in PostOutcomes : IdentifyUser(1, s, o)
    \/ \E s \in Sinks : SinkAnswers(1, s)
    \/ \E s \in Sinks : SinkSilent(1, s)

SpecDispatch == InitDispatch /\ [][NextDispatch]_vars

----------------------------------------------------------------------------
(* Strings *)

Quote == "\""

StartsWith(s, p) == Len(p) <= Len(s) /\ SubSeq(s, 1, Len(p)) = p
EndsWith(s, p) == Len(p) <= Len(s) /\ SubSeq(s, Len(s) - Len(p) + 1, Len(s)) = p

\* s contains t as a substring
Contains(s, t) ==
    \E k \in 0..Len(s) : k + Len(t) <= Len(s) /\ SubSeq(s, k + 1, k + Len(t)) = t

LowerChar(c) == IF c = "A" THEN "a" ELSE c
Lower(s) == [k \in 1..Len(s) |-> LowerChar(s[k])]

\* identifier__icontains
IContains(s, t) == Contains(Lower(s), Lower(t))

RECURSIVE RemoveQuotes(_)
\* search_query.replace('"', "")
RemoveQuotes(s) ==
    IF s = <<>> THEN <<>>
    ELSE IF Head(s) = Quote THEN RemoveQuotes(Tail(s))
    ELSE <<Head(s)>> \o RemoveQuotes(Tail(s))

\* search_query.startswith('"') and search_query.endswith('"')
IsQuoted(search_query) ==
    StartsWith(search_query, <<Quote>>) /\ EndsWith(search_query, <<Quote>>)

\* IdentityViewSet._get_search_expression_dynamo, as the key condition it
\* builds, applied to an identifier
SearchExpressionDynamo(search_query, identifier) ==
    IF IsQuoted(search_query)
    THEN identifier = RemoveQuotes(search_query)
    ELSE StartsWith(identifier, search_query)

\* IdentityViewSet._get_search_kwargs_django, as the filter it builds, applied
\* to an identifier
SearchKwargsDjango(search_query, identifier) ==
    IF IsQuoted(search_query)
    THEN identifier = RemoveQuotes(search_query)
    ELSE IContains(identifier, search_query)

----------------------------------------------------------------------------
(* Document store *)

\* f"{environment.api_key}_{identifier}"
CompositeKey(api_key, identifier) == api_key \o <<"_">> \o identifier

Doc(api_key, identifier, traits, overrides) ==
    [composite_key |-> CompositeKey(api_key, identifier),
     environment_api_key |-> api_key, identifier |-> identifier,
     identity_traits |-> traits, identity_features |-> overrides]

\* Identity.get_item_dynamodb(key)
GetItemDynamodb(composite_key) == {d \in docs : d.composite_key = composite_key}

\* Identity.put_item_dynamodb(item): DynamoDB PutItem on the table keyed by
\* composite_key. With the condition that the key is absent the put of an
\* existing key fails; without it the stored item is replaced.
PutItemDynamodb(item) ==
    LET same == GetItemDynamodb(item.composite_key)
    IN  IF putConditional /\ same # {}
        THEN [ok |-> FALSE, docs |-> docs]
        ELSE [ok |-> TRUE, docs |-> (docs \ same) \cup {item}]

\* Identity.delete_in_dynamodb(composite_key)
DeleteInDynamodb(composite_key) == docs \ GetItemDynamodb(composite_key)

\* Identity.query_items_dynamodb with the KeyConditionExpression of
\* _get_dynamo_query_kwargs
QueryItemsDynamodb(environment_api_key, search_query) ==
    {d \in docs :
        /\ d.environment_api_key = environment_api_key
        /\ search_query # <<>> => SearchExpressionDynamo(search_query, d.identifier)}

\* The queryset with the search filter in place of the environment filter.
GetQuerysetSearchOnly(env, search_query) ==
    {w \in rows :
        IF search_query # <<>> THEN SearchKwargsDjango(search_query, w.identifier)
        ELSE w.env = env}

\* IdentityViewSet.get_queryset
GetQueryset(env, search_query) ==
    {w \in rows :
        /\ w.env = env
        /\ search_query # <<>> => SearchKwargsDjango(search_query, w.identifier)}

----------------------------------------------------------------------------
(* IdentityViewSet: each handler gives the stores after it and its result *)

Res(outcome, identifier, items) ==
    [outcome |-> outcome, identifier |-> identifier, items |-> items]

Out(newRows, newDocs, res) == [rows |-> newRows, docs |-> newDocs, res |-> res]

\* IdentityViewSet.get_object: the identity found, as the set holding it
GetObject(env, identifier) ==
    IF EnableDynamoDb(env)
    THEN LET found == GetItemDynamodb(CompositeKey(env, identifier))
         IN  [outcome |-> IF found = {} THEN "not_found" ELSE "ok", found |-> found]
    ELSE LET got == ObjectsGet(RowsOf(env, identifier))
         IN  [outcome |-> IF got.outcome = "found" THEN "ok"
                          ELSE IF got.outcome = "DoesNotExist" THEN "not_found"
                          ELSE "error",
              found |-> IF got.outcome = "found" THEN RowsOf(env, identifier) ELSE {}]

\* retrieve: get_object, then the serialized identity
ViewRetrieve(env, identifier) ==
    LET obj == GetObject(env, identifier)
    IN  Out(rows, docs, Res(obj.outcome, IF obj.outcome = "ok" THEN identifier ELSE <<>>, {}))

\* IdentityViewSet.list
ViewList(env, search_query) ==
    IF ~EnableDynamoDb(env)
    THEN Out(rows, docs, Res("ok", <<>>, {w.identifier : w \in GetQueryset(env, search_query)}))
    ELSE Out(rows, docs,
             Res("ok", <<>>, {d.identifier : d \in QueryItemsDynamodb(env, search_query)}))

\* create with IdentityViewSet.perform_create: the body's identifier and the
\* URL's environment_api_key are put, or the row is inserted
ViewCreate(env, identifier) ==
    IF EnableDynamoDb(env)
    THEN LET put == PutItemDynamodb(Doc(env, identifier, {}, {}))
         IN  Out(rows, put.docs,
                 IF put.ok THEN Res("ok", identifier, {}) ELSE Res("error", <<>>, {}))
    ELSE IF UniqueViolation(env, identifier)
         THEN Out(rows, docs, Res("error", <<>>, {}))
         ELSE Out(rows \cup {Row(env, identifier, 1, {}, {})}, docs, Res("ok", identifier, {}))

\* update with IdentityViewSet.perform_update. On DynamoDB the item is the
\* serialized instance overridden by the URL kwargs, so it carries the URL's
\* identifier; the relational row takes the body's identifier.
ViewUpdate(env, identifier, body) ==
    LET obj == GetObject(env, identifier)
    IN  IF obj.outcome # "ok" THEN Out(rows, docs, Res(obj.outcome, <<>>, {}))
        ELSE IF EnableDynamoDb(env)
        THEN LET put == PutItemDynamodb(Doc(env, identifier, {}, {}))
             IN  Out(rows, put.docs,
                     IF put.ok THEN Res("ok", identifier, {}) ELSE Res("error", <<>>, {}))
        ELSE IF body # identifier /\ UniqueViolation(env, body)
             THEN Out(rows, docs, Res("error", <<>>, {}))
             ELSE Out((rows \ obj.found) \cup {[w EXCEPT !.identifier = body] : w \in obj.found},
                      docs, Res("ok", body, {}))

\* destroy with IdentityViewSet.perform_destroy
ViewDestroy(env, identifier) ==
    LET obj == GetObject(env, identifier)
    IN  IF obj.outcome # "ok" THEN Out(rows, docs, Res(obj.outcome, <<>>, {}))
        ELSE IF EnableDynamoDb(env)
        THEN Out(rows, DeleteInDynamodb(CompositeKey(env, identifier)), Res("ok", <<>>, {}))
        ELSE Out(rows \ obj.found, docs, Res("ok", <<>>, {}))

Last(op, env, a, b, res) == [op |-> op, env |-> env, a |-> a, b |-> b, res |-> res]

\* One dashboard request on one environment.
Apply(op, env, a, b, out) ==
    /\ rows' = out.rows
    /\ docs' = out.docs
    /\ last' = Last(op, env, a, b, out.res)
    /\ UNCHANGED <<webhooks, outbox, stopFlags, envCache, segOverrides, putConditional, reqs>>

Retrieve(env, identifier) == Apply("retrieve", env, identifier, <<>>, ViewRetrieve(env, identifier))
List(env, search_query) == Apply("list", env, search_query, <<>>, ViewList(env, search_query))
Create(env, identifier) == Apply("create", env, identifier, <<>>, ViewCreate(env, identifier))
Update(env, identifier, body) ==
    Apply("update", env, identifier, body, ViewUpdate(env, identifier, body))
Destroy(env, identifier) == Apply("destroy", env, identifier, <<>>, ViewDestroy(env, identifier))

----------------------------------------------------------------------------
(* Pages of the identity list *)

\* Page size of IdentityPagination
PageSize == 1

\* Order of the characters of identifiers in the index's sort key
CharRank(c) ==
    CASE c = Quote -> 1 [] c = "A" -> 2 [] c = "_" -> 3 [] c = "a" -> 4
      [] c = "b" -> 5 [] OTHER -> 6

\* s sorts before t
RECURSIVE Less(_, _)
Less(s, t) ==
    IF t = <<>> THEN FALSE
    ELSE IF s = <<>> THEN TRUE
    ELSE IF Head(s) # Head(t) THEN CharRank(Head(s)) < CharRank(Head(t))
    ELSE Less(Tail(s), Tail(t))

\* last_evaluated_key of the request, decoded: a key of the index
\* environment_api_key-identifier-index, NoCursor when the parameter is absent
Cursor(environment_api_key, identifier) ==
    [environment_api_key |-> environment_api_key, identifier |-> identifier]
NoCursor == Cursor(<<>>, <<>>)

\* Identity.query_items_dynamodb with Limit and ExclusiveStartKey: of the
\* items the key condition selects, in the order of the index, the first
\* Limit after the start key. A start key outside the key condition's
\* partition is refused by a strict store and taken as a position by a
\* lenient one.
QueryPageDynamodb(environment_api_key, search_query, limit, start, strict) ==
    LET selected == QueryItemsDynamodb(environment_api_key, search_query)
        after == IF start = NoCursor THEN selected
                 ELSE {d \in selected : Less(start.identifier, d.identifier)}
        items == {d \in after :
                    Cardinality({e \in after : Less(e.identifier, d.identifier)}) < limit}
    IN  IF start # NoCursor /\ start.environment_api_key # environment_api_key /\ strict
        THEN [ok |-> FALSE, Items |-> {}]
        ELSE [ok |-> TRUE, Items |-> items]

\* The paginator's page of a queryset: page_size rows after those of the pages
\* before it (some rows: the rows carry no created_date to order them by).
PaginateQueryset(queryset, page) ==
    LET n == Cardinality(queryset)
        skip == (page - 1) * PageSize
        before == CHOOSE S \in SUBSET queryset :
                      Cardinality(S) = IF skip < n THEN skip ELSE n
        rest == queryset \ before
        size == IF PageSize < Cardinality(rest) THEN PageSize ELSE Cardinality(rest)
    IN  IF page > 1 /\ rest = {}
        THEN [ok |-> FALSE, rows |-> {}]
        ELSE [ok |-> TRUE, rows |-> CHOOSE S \in SUBSET rest : Cardinality(S) = size]

\* An identity of a page, with the environment it is stored under
Item(env, identifier) == [env |-> env, identifier |-> identifier]

\* IdentityViewSet.list with the page and last_evaluated_key parameters
ViewListPage(env, search_query, page, start, strict) ==
    IF ~EnableDynamoDb(env)
    THEN LET paged == PaginateQueryset(GetQueryset(env, search_query), page)
         IN  IF paged.ok
             THEN Out(rows, docs,
                      Res("ok", <<>>, {Item(w.env, w.identifier) : w \in paged.rows}))
             ELSE Out(rows, docs, Res("not_found", <<>>, {}))
    ELSE LET got == QueryPageDynamodb(env, search_query, PageSize, start, strict)
         IN  IF got.ok
             THEN Out(rows, docs,
                      Res("ok", <<>>,
                          {Item(d.environment_api_key, d.identifier) : d \in got.Items}))
             ELSE Out(rows, docs, Res("error", <<>>, {}))

\* One list request with its pagination parameters.
ListPage(env, search_query, page, start, strict) ==
    /\ last' = [op |-> "page", env |-> env, a |-> search_query, b |-> start,
                page |-> page, res |-> ViewListPage(env, search_query, page, start, strict).res]
    /\ UNCHANGED <<webhooks, outbox, stopFlags, envCache, segOverrides, rows, docs,
                   putConditional, reqs>>

----------------------------------------------------------------------------
(* Specification of the dashboard API over four environments, two of each    *)
(* store, with identifiers and api keys that hold underscores                *)

\* identifiers of the URL and of the body; the second holds an underscore, as
\* user_1_test of the identity_document fixture does
KeyIdentifiers == {<<"b">>, <<"a", "_", "b">>}
KeyTerms == {<<>>, <<"b">>}
KeyPages == {1, 2}
KeyCursors == {NoCursor, Cursor(EnvD, <<"a">>), Cursor(EnvD2, <<"a">>)}

InitKeys ==
    /\ stopFlags = [e \in Envs |-> FALSE]
    /\ envCache = [e \in Envs |-> "serving"]
    /\ segOverrides = [s \in SegmentIds |-> IF s = 1 THEN {"f1"} ELSE {"f1", "f2"}]
    /\ rows = {}
    /\ docs = {}
    /\ putConditional \in BOOLEAN
    /\ reqs = [r \in Slots |-> IdleReq]
    /\ webhooks = {}
    /\ outbox = NoTasks
    /\ last = NoLast

NextKeys ==
    \/ \E e \in KeyEnvs, i \in KeyIdentifiers : Create(e, i)
    \/ \E e \in KeyEnvs, i \in KeyIdentifiers : Retrieve(e, i)
    \/ \E e \in KeyEnvs, i, j \in KeyIdentifiers : Update(e, i, j)
    \/ \E e \in KeyEnvs, i \in KeyIdentifiers : Destroy(e, i)

SpecKeys == InitKeys /\ [][NextKeys]_vars

----------------------------------------------------------------------------
(* Specification of the pages of the list over the four environments: any    *)
(* stored identities, any search term, page and start key                    *)

InitPages ==
    /\ stopFlags = [e \in Envs |-> FALSE]
    /\ envCache = [e \in Envs |-> "serving"]
    /\ segOverrides = [s \in SegmentIds |-> IF s = 1 THEN {"f1"} ELSE {"f1", "f2"}]
    /\ rows \in SUBSET {Row(EnvR, <<"b">>, 1, {}, {}), Row(EnvR2, <<"b">>, 1, {}, {}),
                        Row(EnvR2, <<"a", "_", "b">>, 1, {}, {})}
    /\ docs \in {D \in SUBSET {Doc(e, i, {}, {}) : e \in {EnvD, EnvD2}, i \in KeyIdentifiers} :
                    \A d1, d2 \in D : d1.composite_key = d2.composite_key => d1 = d2}
    /\ putConditional = FALSE
    /\ reqs = [r \in Slots |-> IdleReq]
    /\ webhooks = {}
    /\ outbox = NoTasks
    /\ last = NoLast

NextPages ==
    \E e \in KeyEnvs, t \in KeyTerms, p \in KeyPages, c \in KeyCursors, strict \in BOOLEAN :
        ListPage(e, t, p, c, strict)

SpecPages == InitPages /\ [][NextPages]_vars

----------------------------------------------------------------------------
(* Specification of the dashboard API on both projects, with SDK requests   *)

StoreIdentifiers == {<<"a">>, <<"b">>}
StoreTerms == {<<>>, <<"a">>}

InitStore ==
    /\ stopFlags = [e \in Envs |-> FALSE]
    /\ envCache = [e \in Envs |-> "serving"]
    /\ segOverrides = [s \in SegmentIds |-> IF s = 1 THEN {"f1"} ELSE {"f1", "f2"}]
    /\ rows \in {{}, {Row(EnvR, <<"a">>, 1, {"t1"}, {"f1"})}}
    /\ docs \in {{}, {Doc(EnvD, <<"a">>, {"t1"}, {"f1"})}}
    /\ putConditional \in BOOLEAN
    /\ reqs = [r \in Slots |-> IdleReq]
    /\ webhooks = {}
    /\ outbox = NoTasks
    /\ last = NoLast

NextStore ==
    \/ \E e \in Envs, i \in StoreIdentifiers : Retrieve(e, i)
    \/ \E e \in Envs, t \in StoreTerms : List(e, t)
    \/ \E e \in Envs, i \in StoreIdentifiers : Create(e, i)
    \/ \E e \in Envs, i, j \in StoreIdentifiers : Update(e, i, j)
    \/ \E e \in Envs, i \in StoreIdentifiers : Destroy(e, i)
    \/ \E e \in Envs : Authenticate(1, e)
    \/ GetOrCreateGet(1, <<"a">>)
    \/ GetOrCreateCreate(1)
    \/ GetOrCreateReget(1)
    \/ ReadFeature(1, "")
    \/ IdentifyIntegrations(1)
    \/ AllFeatureStatesResponse(1)
    \/ NextRequest(1)

SpecStore == InitStore /\ [][NextStore]_vars

----------------------------------------------------------------------------
(* Specification of the two backends side by side: the same dashboard        *)
(* request is made on the relational project and on the DynamoDB project,    *)
(* which start with the same identities                                      *)

PairIdentifiers == {<<"a">>, <<"a", "b">>}
PairTerms == {<<>>, <<"a">>, <<"A">>, <<"b">>, <<Quote, "a", Quote>>}

InitPair ==
    /\ stopFlags = [e \in Envs |-> FALSE]
    /\ envCache = [e \in Envs |-> "serving"]
    /\ segOverrides = [s \in SegmentIds |-> IF s = 1 THEN {"f1"} ELSE {"f1", "f2"}]
    /\ \E present \in SUBSET PairIdentifiers, t \in SUBSET TraitKeys :
          /\ rows = {Row(EnvR, i, 1, t, {}) : i \in present}
          /\ docs = {Doc(EnvD, i, t, {}) : i \in present}
    /\ putConditional \in BOOLEAN
    /\ reqs = [r \in Slots |-> IdleReq]
    /\ webhooks = {}
    /\ outbox = NoTasks
    /\ last = NoLast

\* The handler on EnvR changes only rows and the handler on EnvD only docs,
\* so the two requests do not meet; both results are kept.
ApplyBoth(op, a, b, onR, onD) ==
    /\ rows' = onR.rows
    /\ docs' = onD.docs
    /\ last' = [op |-> op, a |-> a, b |-> b, relational |-> onR.res, document |-> onD.res]
    /\ UNCHANGED <<webhooks, outbox, stopFlags, envCache, segOverrides, putConditional, reqs>>

BothList(t) == ApplyBoth("list", t, <<>>, ViewList(EnvR, t), ViewList(EnvD, t))
BothRetrieve(i) == ApplyBoth("retrieve", i, <<>>, ViewRetrieve(EnvR, i), ViewRetrieve(EnvD, i))
BothCreate(i) == ApplyBoth("create", i, <<>>, ViewCreate(EnvR, i), ViewCreate(EnvD, i))
BothUpdate(i, j) == ApplyBoth("update", i, j, ViewUpdate(EnvR, i, j), ViewUpdate(EnvD, i, j))
BothDestroy(i) == ApplyBoth("destroy", i, <<>>, ViewDestroy(EnvR, i), ViewDestroy(EnvD, i))

NextPair ==
    \/ \E t \in PairTerms : BothList(t)
    \/ \E i, j \in PairIdentifiers : BothUpdate(i, j)
    \/ \E i \in PairIdentifiers : BothRetrieve(i)
    \/ \E i \in PairIdentifiers : BothCreate(i)
    \/ \E i \in PairIdentifiers : BothDestroy(i)

SpecPair == InitPair /\ [][NextPair]_vars

----------------------------------------------------------------------------
(* Specification of the search: every term up to MaxTermLen over a small     *)
(* alphabet against stores of up to MaxStored identities                     *)

\* Longest search term.
MaxTermLen == 4
\* Longest stored identifier.
MaxIdentifierLen == 2
\* Most identities stored in an environment.
MaxStored == 2

Chars == {"a", Quote}
Strings(n) == UNION {[1..k -> Chars] : k \in 0..n}
SearchTerms == Strings(MaxTermLen)
SearchIdentifiers == Strings(MaxIdentifierLen) \ {<<>>}

InitSearch ==
    /\ stopFlags = [e \in Envs |-> FALSE]
    /\ envCache = [e \in Envs |-> "serving"]
    /\ segOverrides = [s \in SegmentIds |-> IF s = 1 THEN {"f1"} ELSE {"f1", "f2"}]
    /\ \E present \in SUBSET SearchIdentifiers :
          /\ Cardinality(present) <= MaxStored
          /\ rows = {Row(EnvR, i, 1, {}, {}) : i \in present}
          /\ docs = {Doc(EnvD, i, {}, {}) : i \in present}
    /\ putConditional = TRUE
    /\ reqs = [r \in Slots |-> IdleReq]
    /\ webhooks = {}
    /\ outbox = NoTasks
    /\ last = NoLast

NextSearch == \E e \in Envs, t \in SearchTerms : List(e, t)

SpecSearch == InitSearch /\ [][NextSearch]_vars

----------------------------------------------------------------------------
(* Properties of the authentication *)

\* C1: at every step of authenticate the request fails with
\* AuthenticationFailed (401) exactly when the X-Environment-Key header is
\* missing, or names no environment, or the organisation of the environment
\* object served for that key has stop_serving_flags set; a failing request
\* has no environment attached, any other has the environment of its key.
C1_AuthenticateFailsExactly ==
    [][\A r \in Slots :
        (reqs[r].pc = "idle" /\ reqs'[r].pc # "idle") =>
            LET key == reqs'[r].key
                failed == reqs'[r].status = 401
            IN  /\ failed <=> \/ key = <<>>
                              \/ key \notin Envs
                              \/ GetFromCache(key) = "stopped"
                /\ failed => reqs'[r].environment = NoEnv /\ reqs'[r].pc = "done"
                /\ ~failed => reqs'[r].environment = key /\ key \in Envs]_vars

\* Both kinds of failure and a success have happened: one request was turned
\* away because the organisation is disabled, the other was let through with
\* the same key after the flag was cleared.
C1_Witness ==
    \E r1, r2 \in Slots :
        /\ reqs[r1].body = "auth_disabled" /\ reqs[r1].key = EnvR
        /\ reqs[r1].environment = NoEnv
        /\ reqs[r2].key = EnvR /\ reqs[r2].environment = EnvR
        /\ reqs[r2].pc = "done" /\ reqs[r2].status = 200

----------------------------------------------------------------------------
(* Properties of get_or_create *)

\* Requests whose get_or_create has returned an identity.
Resolved(r) == reqs[r].via # ""

SameKey(r1, r2) ==
    /\ reqs[r1].environment = reqs[r2].environment
    /\ reqs[r1].identifier = reqs[r2].identifier

\* C2: get_or_create is idempotent: the store holds at most one identity per
\* (environment, identifier); every identity a request was given is the
\* stored identity of its key; two requests with the same key are given the
\* same identity, and at most one of them created it.
C2_GetOrCreateIdempotent ==
    /\ \A w1, w2 \in rows :
          (w1.env = w2.env /\ w1.identifier = w2.identifier) => w1 = w2
    /\ \A r \in Slots :
          Resolved(r) =>
             \E w \in rows : /\ w.env = reqs[r].environment
                             /\ w.identifier = reqs[r].identifier
                             /\ w.copy = reqs[r].copy
    /\ \A r1, r2 \in Slots :
          (r1 # r2 /\ Resolved(r1) /\ Resolved(r2) /\ SameKey(r1, r2)) =>
             /\ reqs[r1].copy = reqs[r2].copy
             /\ ~(reqs[r1].via = "create" /\ reqs[r2].via = "create")

\* A request created the identity and a later request with the same key found it.
C2_Witness ==
    \E r1, r2 \in Slots :
        /\ r1 # r2 /\ SameKey(r1, r2)
        /\ reqs[r1].pc = "done" /\ reqs[r1].via = "create"
        /\ reqs[r2].pc = "done" /\ reqs[r2].via = "get"
        /\ reqs[r1].status = 200 /\ reqs[r2].status = 200

\* C3: concurrent resolution requests for one (environment, identifier) that
\* does not exist yet: in every interleaving no request ends in an error,
\* and once any of them has its identity exactly one identity is stored for
\* the key.
C3_ConcurrentCreateOneIdentity ==
    \A r \in Slots :
        /\ reqs[r].status # 500
        /\ reqs[r].pc = "reget" =>
              Cardinality(RowsOf(reqs[r].environment, reqs[r].identifier)) = 1
        /\ Resolved(r) =>
              Cardinality(RowsOf(reqs[r].environment, reqs[r].identifier)) = 1

\* Two requests raced: both missed the first lookup, one inserted, the other
\* hit the unique constraint and read the winner's identity; both answered.
C3_Witness ==
    \E r1, r2 \in Slots :
        /\ r1 # r2 /\ SameKey(r1, r2)
        /\ reqs[r1].pc = "done" /\ reqs[r1].via = "create" /\ reqs[r1].status = 200
        /\ reqs[r2].pc = "done" /\ reqs[r2].via = "reget" /\ reqs[r2].status = 200
        /\ reqs[r1].copy = reqs[r2].copy

----------------------------------------------------------------------------
(* Properties of the resolution *)

\* Position of a segment in the priority order.
Priority(s) == CHOOSE i \in 1..Len(Segments) : Segments[i].id = s

\* The matched segments that override feature f for an identity with these traits.
MatchedOverriding(f, traits) ==
    {s \in SegmentIds : /\ Segments[Priority(s)].rule \subseteq traits
                        /\ f \in segOverrides[s]}

\* The flag fs is the one the precedence rule gives the identity row w.
ByPrecedence(fs, w) ==
    LET m == MatchedOverriding(fs.feature, w.traits)
    IN  /\ fs.feature \in w.overrides => fs.scope = "identity"
        /\ (fs.feature \notin w.overrides /\ m # {}) =>
              /\ fs.scope = "segment"
              /\ fs.seg \in m
              /\ \A s \in m : Priority(fs.seg) <= Priority(s)
        /\ (fs.feature \notin w.overrides /\ m = {}) => fs.scope = "environment"

\* C5: every flag a resolution request returns is the identity-scope
\* override if the identity has one, otherwise the override of the first
\* matched segment in priority order that overrides the feature, otherwise
\* the environment default; the full response has one flag per feature.
C5_OverridePrecedence ==
    \A r \in Slots :
        LET q == reqs[r]
            w == IdentityRow(q.environment, q.identifier, q.copy)
        IN  /\ q.body \in {"flags_traits", "flags_traits_segments"} =>
                  /\ Len(q.flags) = Len(Features)
                  /\ \A i \in 1..Len(Features) :
                        q.flags[i].feature = Features[i] /\ ByPrecedence(q.flags[i], w)
            /\ q.body = "flag" => ByPrecedence(q.flags[1], w)

\* An identity with an override of f1 that also matches both segments, both
\* overriding f1: the identity override was returned for f1, and for f2 the
\* second segment's override (the first segment does not override f2).
C5_Witness ==
    \E r \in Slots :
        LET q == reqs[r]
            w == IdentityRow(q.environment, q.identifier, q.copy)
        IN  /\ q.body = "flags_traits"
            /\ "f1" \in w.overrides /\ "f2" \notin w.overrides
            /\ MatchedOverriding("f1", w.traits) = {1, 2}
            /\ MatchedOverriding("f2", w.traits) = {2}
            /\ q.flags[1].scope = "identity"
            /\ q.flags[2].scope = "segment" /\ q.flags[2].seg = 2

\* C6: a request with feature=<name> answers 200 with the one resolved flag
\* of that name, or 404, and 404 exactly when no resolved feature state of
\* the identity has that name.
C6_SingleFeature ==
    \A r \in Slots :
        LET q == reqs[r]
            states == AllFeatureStatesOf(q)
            named == {i \in 1..Len(states) : states[i].feature = q.feature}
        IN  (q.pc = "done" /\ q.feature # "") =>
              /\ q.status \in {200, 404}
              /\ q.status = 404 <=> named = {}
              /\ q.status = 200 =>
                    /\ Len(q.flags) = 1
                    /\ q.flags[1].feature = q.feature
                    /\ \E i \in named : q.flags[1] = states[i]

\* One request asked for an unknown feature and got 404, another asked for
\* the second feature of the project and got its flag.
C6_Witness ==
    \E r1, r2 \in Slots :
        /\ reqs[r1].pc = "done" /\ reqs[r1].feature = "fx" /\ reqs[r1].status = 404
        /\ reqs[r2].pc = "done" /\ reqs[r2].feature = "f2" /\ reqs[r2].status = 200
        /\ reqs[r2].flags[1].feature = "f2"

\* C10: identify_integrations has been called for a request only if the
\* request has an identifier, its identity's feature states have been
\* resolved, and no feature name was given; it was called with exactly the
\* resolved feature states, which are the flags of the response; a request
\* that ends in 404 or without identifier never called it.
C10_DispatchAfterResolution ==
    \A r \in Slots :
        LET q == reqs[r]
        IN  /\ q.called =>
                  /\ q.identifier # <<>>
                  /\ Resolved(r)
                  /\ q.feature = ""
                  /\ q.pc \in {"respond", "done"}
                  /\ Len(q.states) = Len(Features)
                  /\ q.sent = q.states
                  /\ q.sent = AllFeatureStatesOf(q)
                  /\ q.pc = "done" => q.status = 200 /\ q.flags = q.sent
            /\ (q.status = 404 \/ q.body = "missing_identifier") => ~q.called
            /\ q.body = "flags_traits" => q.called

\* One request was answered with its flags after the integrations were
\* called with them; another ended in 404 without the call.
C10_Witness ==
    \E r1, r2 \in Slots :
        /\ reqs[r1].pc = "done" /\ reqs[r1].called
        /\ reqs[r1].flags = reqs[r1].sent /\ Len(reqs[r1].sent) = Len(Features)
        /\ reqs[r2].pc = "done" /\ reqs[r2].status = 404 /\ ~reqs[r2].called

----------------------------------------------------------------------------
(* Properties of the stores *)

\* A dashboard create on the DynamoDB project has just been made.
DynamoCreateStep ==
    last' # last /\ last'.op = "create" /\ EnableDynamoDb(last'.env)

\* C4: on a DynamoDB project a create is a conditional put: after it exactly
\* one document has the key, and when a document had the key already (a
\* repeated create, the loser of a race) that document is left as it was and
\* the request answers with it instead of an error.
C4_CreateIsConditionalPut ==
    [][DynamoCreateStep =>
        LET key == CompositeKey(last'.env, last'.a)
            old == {d \in docs : d.composite_key = key}
            new == {d \in docs' : d.composite_key = key}
        IN  /\ Cardinality(new) = 1
            /\ old # {} => /\ new = old
                           /\ last'.res.outcome = "ok"
                           /\ last'.res.identifier = last'.a]_vars

\* C9: the identities of a project are read and written only in the store
\* its enable_dynamo_db setting selects: no relational row belongs to a
\* DynamoDB project and no document to a relational project.
C9_SelectedStoreOnly ==
    /\ \A w \in rows : ~EnableDynamoDb(w.env)
    /\ \A d \in docs : EnableDynamoDb(d.environment_api_key)

\* C7: for a term t wrapped in double quotes only the identities whose
\* identifier is exactly t are listed; for any other term every identity
\* whose identifier contains it (relational) or starts with it (DynamoDB)
\* is listed.
C7_SearchExactOrPartial ==
    (last.op = "list" /\ last.a # <<>>) =>
        LET q == last.a
            wrapped == Len(q) >= 2 /\ q[1] = Quote /\ q[Len(q)] = Quote
            t == IF wrapped THEN SubSeq(q, 2, Len(q) - 1) ELSE q
            stored == IF EnableDynamoDb(last.env)
                      THEN {d.identifier : d \in {x \in docs : x.environment_api_key = last.env}}
                      ELSE {w.identifier : w \in {x \in rows : x.env = last.env}}
        IN  IF wrapped
            THEN last.res.items = stored \cap {t}
            ELSE \A i \in stored :
                    (IF EnableDynamoDb(last.env) THEN StartsWith(i, t) ELSE Contains(i, t))
                        => i \in last.res.items

\* C8: every dashboard request returns the same result on the relational
\* project and on the DynamoDB project.
C8_BackendsAgree ==
    last.op # "none" => last.relational = last.document

----------------------------------------------------------------------------
(* Properties of the integration dispatch *)

\* The event of request r for sink s has failed.
SinkFailed(r, s) == outbox[<<r, s>>].pc = "failed"

\* Every configured sink has its event once the integrations were called, and
\* the request that called them is answered 200 with the resolved flags and
\* the identity's traits.
AnsweredWhateverFailed ==
    \A r \in Slots :
        LET q == reqs[r]
        IN  q.called =>
              /\ \A s \in webhooks : outbox[<<r, s>>].pc # "none"
              /\ q.pc \in {"respond", "done"}
              /\ q.pc = "done" =>
                    /\ q.status = 200
                    /\ q.body = "flags_traits"
                    /\ q.flags = q.sent
                    /\ q.traits = IdentityRow(q.environment, q.identifier, q.copy).traits

C12_FireAndForget ==
    \A r \in Slots :
        /\ reqs[r].pc = "respond" => ENABLED AllFeatureStatesResponse(r)
        /\ \A s \in Sinks :
              outbox[<<r, s>>].pc = "posting" => outbox[<<r, s>>].waited <= SinkTimeout

\* The event of request r for sink s has been through generate_user_data.
Generated(r, s) == outbox[<<r, s>>].pc \notin {"none", "queued"}

\* C13: generate_user_data(identity, feature_states) always returns a dict
\* with exactly the keys identity, traits, flags and segments: the identity's
\* identifier, all of its traits, one entry per segment of the project, and as
\* flags the IntegrationFeatureStateSerializer serialization of the given
\* feature states, one entry per feature state in the same order, each with
\* its environment_weight.
C13_GenerateUserData ==
    \A r \in Slots, s \in Sinks :
        Generated(r, s) =>
            LET t == outbox[<<r, s>>]
                data == t.data
            IN  /\ t.pc # "blocked" /\ data # NoData
                /\ DOMAIN data = {"identity", "traits", "flags", "segments"}
                /\ data.identity = t.identity.identifier
                /\ data.traits = TraitsOfIdentity(t.identity)
                /\ Len(data.segments) = Len(Segments)
                /\ \A i \in 1..Len(Segments) : data.segments[i].id = Segments[i].id
                /\ Len(data.flags) = Len(t.states)
                /\ \A i \in 1..Len(t.states) :
                      /\ "environment_weight" \in DOMAIN data.flags[i]
                      /\ data.flags[i] = IntegrationFeatureStateSerializer(t.states[i])

\* C15: in the payload of generate_user_data the member field of each
\* segment entry is true exactly when the dispatched identity matches that
\* segment.
C15_SegmentMember ==
    \A r \in Slots, s \in Sinks :
        outbox[<<r, s>>].pc \in {"ready", "posting", "delivered"} =>
            LET t == outbox[<<r, s>>]
            IN  /\ Len(t.data.segments) = Len(Segments)
                /\ \A i \in 1..Len(Segments) :
                      t.data.segments[i].member
                          <=> DoesIdentityMatch(Segments[i], TraitsOfIdentity(t.identity))

----------------------------------------------------------------------------
(* Properties of the identity list and of the document keys *)

\* C14: listing the identities of an environment never returns an identity
\* of another environment, on either backend, for every search term and every
\* pagination cursor the client supplies.
C14_ListStaysInEnvironment ==
    last.op = "page" => \A item \in last.res.items : item.env = last.env

\* A page of one environment was returned, with a search term and for the
\* document store a start key naming another environment, while another
\* environment of the same store held an identity the search selects.
C14_Witness ==
    /\ last.op = "page" /\ last.res.outcome = "ok" /\ last.res.items # {}
    /\ last.a # <<>>
    /\ IF EnableDynamoDb(last.env)
       THEN /\ last.b # NoCursor /\ last.b.environment_api_key # last.env
            /\ \E d \in docs :
                  /\ d.environment_api_key # last.env
                  /\ SearchExpressionDynamo(last.a, d.identifier)
       ELSE \E w \in rows :
                  /\ w.env # last.env
                  /\ SearchKwargsDjango(last.a, w.identifier)

\* The documents among stored that belong to environments other than env.
DocsOfOthers(stored, env) == {d \in stored : d.environment_api_key # env}

\* C16: on the document store get_object addresses the identity by the
\* composite key api_key + "_" + identifier, and different (api key,
\* identifier) pairs never address the same document: a retrieve, update or
\* delete in one environment finds only the document of that environment and
\* identifier, and leaves the documents of every other environment as they
\* were.
C16_CompositeKeyAddressesOne ==
    [][ ( /\ last' # last
          /\ last'.op \in {"retrieve", "update", "destroy"}
          /\ EnableDynamoDb(last'.env) ) =>
            /\ \A d \in GetObject(last'.env, last'.a).found :
                  /\ d.composite_key = CompositeKey(last'.env, last'.a)
                  /\ d.environment_api_key = last'.env
                  /\ d.identifier = last'.a
            /\ DocsOfOthers(docs', last'.env) = DocsOfOthers(docs, last'.env)
      ]_vars

====
